---- MODULE Spec2Model ----
(***************************************************************************)
(* Car-on-surfaces driving simulation: the physics integrator, the terrain *)
(* model, the run history and the event handlers that drive them.          *)
(*                                                                         *)
(* The repository holds two builds of the same program: main.js (fixed     *)
(* constants and a fixed terrain table) and the configurable build         *)
(* (unnamed/part_000: menu inputs, scalable terrain, guarded results).     *)
(* The variable `variant` selects the build; it never changes.             *)
(*                                                                         *)
(* Numbers.  The program computes in IEEE doubles.  The model uses         *)
(* fixed-point integers with three decimals: lengths in mm, speeds in      *)
(* mm/s, accelerations in mm/s^2, times in ms, friction coefficients and   *)
(* sines/cosines in thousandths.  A product of two such quantities is      *)
(* divided by Milli (rounding down).  Angles are whole degrees.            *)
(***************************************************************************)
EXTENDS Integers, Sequences, FiniteSets, TLC

VARIABLES variant, state, keys, GRAVITY, ENGINE_ACC, MAX_SPEED, CAR_MASS, terrains,
          lastTime, startListeners, resultsCalls, last

vars == <<variant, state, keys, GRAVITY, ENGINE_ACC, MAX_SPEED, CAR_MASS, terrains, lastTime, startListeners, resultsCalls, last>>

(***************************************************************************)
(* Bounds of the exploration                                               *)
(***************************************************************************)
\* frame timestamps are explored up to MaxFrames * DtCapMs milliseconds
MaxFrames == 4

(***************************************************************************)
(* Fixed-point scale and program constants                                 *)
(***************************************************************************)
\* (timestamp - lastTime) / 1000: milliseconds per second; also the scale
\* of every fixed-point quantity
Milli == 1000

\* Math.min(..., 0.1): the largest time step, in ms
DtCapMs == 100

\* the throttle of the history samples, 0.2 s, in ms
SampleIntervalMs == 200

\* Math.abs(state.vel) > 0.01, in mm/s
FrictionEpsilon == 10

BRAKE_ACC == -10000

DefaultGravity == 9800

DefaultEngineAcc == 6000

DefaultMaxSpeed == 50000

DefaultCarMass == 1000

minSegmentLength == 50000

baseTotalLength == 250000

MinTotalLength == 300000

DefaultTotalLength == 750000

DefaultSegmentLength == 250000

MaxTimestamp == MaxFrames * DtCapMs

\* gaps between two frame timestamps, in ms: a usual frame of 90 ms, and a
\* gap longer than the cap (the first frame, where lastTime = 0, or a frame
\* after the tab was in the background).  requestAnimationFrame hands
\* gameLoop timestamps that grow from frame to frame.
FrameDeltas == {90, 250}

Min(a, b) == IF a < b THEN a ELSE b

Max(a, b) == IF a > b THEN a ELSE b

\* x * y for fixed-point x, y (three decimals), rounded down
MulMilli(x, y) == (x * y) \div Milli

\* Math.sin(angle * Math.PI / 180) in thousandths, whole degrees -10..10
SinTable == <<-174, -156, -139, -122, -105, -87, -70, -52, -35, -17, 0, 17, 35, 52, 70, 87, 105, 122, 139, 156, 174>>

\* Math.cos(angle * Math.PI / 180) in thousandths, whole degrees -10..10
CosTable == <<985, 988, 990, 993, 995, 996, 998, 999, 999, 1000, 1000, 1000, 999, 999, 998, 996, 995, 993, 990, 988, 985>>

sinDeg(angle) == SinTable[angle + 11]

cosDeg(angle) == CosTable[angle + 11]

Sign(x) == IF x > 0 THEN 1 ELSE IF x < 0 THEN -1 ELSE 0

Abs(x) == IF x < 0 THEN -x ELSE x

(***************************************************************************)
(* Terrain                                                                 *)
(***************************************************************************)
Slope(s, e, a) == [start |-> s, end |-> e, angle |-> a]

\* BASE_SLOPES: five 50 m slope segments per surface
BASE_SLOPES == [ICE  |-> <<[angle |-> 0, length |-> 50000], [angle |-> -5, length |-> 50000], [angle |-> -7, length |-> 50000], [angle |-> 3, length |-> 50000], [angle |-> 8, length |-> 50000]>>,
                SAND |-> <<[angle |-> 4, length |-> 50000], [angle |-> 9, length |-> 50000], [angle |-> 0, length |-> 50000], [angle |-> -6, length |-> 50000], [angle |-> 5, length |-> 50000]>>,
                WOOD |-> <<[angle |-> -3, length |-> 50000], [angle |-> -8, length |-> 50000], [angle |-> 6, length |-> 50000], [angle |-> 10, length |-> 50000], [angle |-> 2, length |-> 50000]>>]

\* the terrains declared by the configurable build, before any rebuild
TerrainDecl == <<[name |-> "ICE", baseMu |-> 150], [name |-> "SAND", baseMu |-> 700], [name |-> "WOOD", baseMu |-> 400]>>

\* the fixed terrain table of main.js
MainTerrains == <<
  [name |-> "ICE", baseMu |-> 150, length |-> 250000, start |-> 0, end |-> 250000,
   slopes |-> <<Slope(0, 80000, 0), Slope(80000, 120000, -3), Slope(120000, 180000, 2), Slope(180000, 250000, 5)>>],
  [name |-> "SAND", baseMu |-> 700, length |-> 250000, start |-> 250000, end |-> 500000,
   slopes |-> <<Slope(250000, 320000, 0), Slope(320000, 380000, 4), Slope(380000, 440000, -2), Slope(440000, 500000, 2)>>],
  [name |-> "WOOD", baseMu |-> 400, length |-> 250000, start |-> 500000, end |-> 750000,
   slopes |-> <<Slope(500000, 580000, 0), Slope(580000, 640000, -4), Slope(640000, 690000, 6), Slope(690000, 750000, 1)>>] >>

\* a raw form field: a number, a text that parseFloat turns into NaN, or
\* an element that is missing from the page
Num(v) == [kind |-> "num", value |-> v]

NaNField == [kind |-> "nan", value |-> 0]

AbsentField == [kind |-> "absent", value |-> 0]

getValidatedInput(field, minVal, defaultVal) ==
  IF field.kind = "absent" THEN defaultVal
  ELSE IF field.kind = "nan" \/ field.value < minVal
       THEN (IF minVal > 0 THEN minVal ELSE defaultVal)
       ELSE field.value

\* Math.floor(totalLength / 3), in whole metres
FloorThird(totalLength) == (totalLength \div (3 * Milli)) * Milli

\* the three surface lengths chosen by updateTerrainStructure
newLengths(form) ==
  IF form.equalToggle
  THEN LET totalLength == getValidatedInput(form.totalTrackLength, MinTotalLength, DefaultTotalLength)
           equalLength == Max(minSegmentLength, FloorThird(totalLength))
       IN <<equalLength, equalLength, equalLength>>
  ELSE <<getValidatedInput(form.iceLengthInput, minSegmentLength, DefaultSegmentLength),
         getValidatedInput(form.sandLengthInput, minSegmentLength, DefaultSegmentLength),
         getValidatedInput(form.woodLengthInput, minSegmentLength, DefaultSegmentLength)>>

\* baseSlope.length * scaleFactor, scaleFactor = newLength / baseTotalLength
newSlopeLength(baseLength, newLength) == ((baseLength \div Milli) * newLength) \div (baseTotalLength \div Milli)

RECURSIVE scaleSlopes(_, _, _)
\* baseSlopes.forEach(...): the slope segments laid out from segmentStart
scaleSlopes(baseSlopes, newLength, segmentStart) ==
  IF baseSlopes = <<>> THEN <<>>
  ELSE LET len == newSlopeLength(Head(baseSlopes).length, newLength)
       IN <<Slope(segmentStart, segmentStart + len, Head(baseSlopes).angle)>>
          \o scaleSlopes(Tail(baseSlopes), newLength, segmentStart + len)

RECURSIVE buildTerrainsFromSamePos(_, _, _)
\* buildTerrains where currentPos is not advanced to newTerrain.end
buildTerrainsFromSamePos(decls, lengths, currentPos) ==
  IF decls = <<>> THEN <<>>
  ELSE LET newLength == Head(lengths)
           newTerrain == [name |-> Head(decls).name, baseMu |-> Head(decls).baseMu,
                          length |-> newLength, start |-> currentPos, end |-> currentPos + newLength,
                          slopes |-> scaleSlopes(BASE_SLOPES[Head(decls).name], newLength, currentPos)]
       IN <<newTerrain>> \o buildTerrainsFromSamePos(Tail(decls), Tail(lengths), currentPos)

RECURSIVE buildTerrains(_, _, _)
\* terrains.map(...): the surfaces laid out from currentPos
buildTerrains(decls, lengths, currentPos) ==
  IF decls = <<>> THEN <<>>
  ELSE LET newLength == Head(lengths)
           newTerrain == [name |-> Head(decls).name, baseMu |-> Head(decls).baseMu,
                          length |-> newLength, start |-> currentPos, end |-> currentPos + newLength,
                          slopes |-> scaleSlopes(BASE_SLOPES[Head(decls).name], newLength, currentPos)]
       IN <<newTerrain>> \o buildTerrains(Tail(decls), Tail(lengths), newTerrain.end)

\* the terrains after updateTerrainStructure with the given form values
rebuiltTerrains(form) == buildTerrains(TerrainDecl, newLengths(form), 0)

\* state.trackLength = currentPos after the map
rebuiltTrackLength(form) == rebuiltTerrains(form)[3].end

FirstIndex(S) == IF S = {} THEN 0 ELSE CHOOSE i \in S : \A j \in S : i <= j

\* findTerrain where a surface also claims the position of its end
findTerrainEndInclusive(ts, pos) ==
  LET i == FirstIndex({j \in 1..Len(ts) : pos >= ts[j].start /\ pos <= ts[j].end})
  IN IF i = 0 THEN ts[Len(ts)] ELSE ts[i]

\* terrains.find(t => pos >= t.start && pos < t.end) || terrains[terrains.length - 1]
findTerrain(ts, pos) ==
  LET i == FirstIndex({j \in 1..Len(ts) : pos >= ts[j].start /\ pos < ts[j].end})
  IN IF i = 0 THEN ts[Len(ts)] ELSE ts[i]

getCurrentTerrain == findTerrain(terrains, state.pos)

getCurrentSlope(terrain) ==
  LET i == FirstIndex({j \in 1..Len(terrain.slopes) : state.pos >= terrain.slopes[j].start /\ state.pos < terrain.slopes[j].end})
  IN IF i = 0 THEN 0 ELSE terrain.slopes[i].angle

\* Math.tan(angle * Math.PI / 180) in thousandths, whole degrees -10..10
TanTable == <<-176, -158, -141, -123, -105, -87, -70, -52, -35, -17, 0, 17, 35, 52, 70, 87, 105, 123, 141, 158, 176>>

tanDeg(angle) == TanTable[angle + 11]

\* partialHeight that forgets the height accumulated so far
partialHeightFromZero(accumulatedHeight, slope, position) == (position - slope.start) * tanDeg(slope.angle)

\* accumulatedHeight += distanceInSlope * Math.tan(...); return.  Heights
\* are products of a length in mm and a tangent in thousandths
partialHeight(accumulatedHeight, slope, position) == accumulatedHeight + (position - slope.start) * tanDeg(slope.angle)

RECURSIVE slopesHeight(_, _, _)
\* for (const slope of terrain.slopes): break before a slope that starts at
\* or after the position, add a slope that ends at or before it in full,
\* return from inside the slope that holds it
slopesHeight(slopes, position, accumulatedHeight) ==
  IF slopes = <<>> THEN [returned |-> FALSE, height |-> accumulatedHeight]
  ELSE LET slope == Head(slopes)
       IN IF position <= slope.start THEN [returned |-> FALSE, height |-> accumulatedHeight]
          ELSE IF position >= slope.end
               THEN slopesHeight(Tail(slopes), position, accumulatedHeight + (slope.end - slope.start) * tanDeg(slope.angle))
               ELSE [returned |-> TRUE, height |-> partialHeight(accumulatedHeight, slope, position)]

RECURSIVE terrainsHeight(_, _, _)
\* for (const terrain of terrains): break at a surface that starts after
\* the position
terrainsHeight(ts, position, accumulatedHeight) ==
  IF ts = <<>> THEN accumulatedHeight
  ELSE IF position < Head(ts).start THEN accumulatedHeight
       ELSE LET r == slopesHeight(Head(ts).slopes, position, accumulatedHeight)
            IN IF r.returned THEN r.height ELSE terrainsHeight(Tail(ts), position, r.height)

getTerrainHeightAt(position) == IF position <= 0 THEN 0 ELSE terrainsHeight(terrains, position, 0)

\* a result of a division of doubles that is not a finite number
InfinityValue == [kind |-> "inf", value |-> 0]

\* avgSpeed of showResults, were it called in the current state: main.js
\* divides without a test, the configurable build tests state.time > 0
avgSpeed ==
  IF variant = "main"
  THEN (IF state.time = 0
        THEN (IF state.trackLength = 0 THEN NaNField ELSE InfinityValue)
        ELSE Num((state.trackLength * Milli) \div state.time))
  ELSE (IF state.time > 0 THEN Num((state.trackLength * Milli) \div state.time) ELSE Num(0))

(***************************************************************************)
(* Physics step                                                            *)
(***************************************************************************)
\* dt is held in ms: x * dt with dt in seconds
MulDt(x, dt) == (x * dt) \div Milli

\* controlAcc of a car whose engine gives nothing
controlAccBrakeOnly == IF keys.down THEN BRAKE_ACC ELSE 0

\* engine and brake: each key adds its term
controlAcc == (IF keys.up THEN ENGINE_ACC ELSE 0) + (IF keys.down THEN BRAKE_ACC ELSE 0)

\* frictionAcc of a surface without friction
frictionAccNone(mu, slopeAngle) == 0

\* friction, applied only while |vel| > 0.01; main.js leaves out cos(angle)
frictionAcc(mu, slopeAngle) ==
  IF Abs(state.vel) > FrictionEpsilon
  THEN (IF variant = "main"
        THEN MulMilli(mu, GRAVITY) * Sign(state.vel)
        ELSE MulMilli(MulMilli(mu, GRAVITY), cosDeg(slopeAngle)) * Sign(state.vel))
  ELSE 0

gravityComponent(slopeAngle) == MulMilli(GRAVITY, sinDeg(slopeAngle))

\* clampVelocity without the lower clamp
clampVelocityNoFloor(v) == IF v > MAX_SPEED THEN MAX_SPEED ELSE v

\* clampVelocity without the upper clamp
clampVelocityNoCeiling(v) == IF v < 0 THEN 0 ELSE v

\* if (vel < 0) vel = 0; if (vel > MAX_SPEED) vel = MAX_SPEED
clampVelocity(v) ==
  LET lo == IF v < 0 THEN 0 ELSE v
  IN IF lo > MAX_SPEED THEN MAX_SPEED ELSE lo

\* trackMaxSpeed that stores the velocity of every step
trackMaxSpeedLatest(vel) == vel

\* if (state.vel > state.maxSpeed) state.maxSpeed = state.vel
trackMaxSpeed(vel) == IF vel > state.maxSpeed THEN vel ELSE state.maxSpeed

\* if (state.pos >= state.trackLength)
reachedFinish(pos) == pos >= state.trackLength

\* shouldRecord without the throttle: every step records
shouldRecordEveryStep(history, time) == TRUE

\* shouldRecord with a throttle of 0.1 s
shouldRecordHalfInterval(history, time) ==
  Len(history) = 0 \/ 2 * (time - history[Len(history)].t) > SampleIntervalMs

\* history.length === 0 || time - history[last].t > 0.2
shouldRecord(history, time) ==
  Len(history) = 0 \/ time - history[Len(history)].t > SampleIntervalMs

\* cameraOffset += (targetOffset - cameraOffset) * 0.1
cameraFollow(cameraOffset, targetOffset) == cameraOffset + (targetOffset - cameraOffset) \div 10

\* let acc: engine + brake - friction - gravity along the slope, at the
\* surface and slope of the position the step starts from
stepAcc ==
  LET terrain    == getCurrentTerrain
      slopeAngle == getCurrentSlope(terrain)
  IN controlAcc - frictionAcc(terrain.baseMu, slopeAngle) - gravityComponent(slopeAngle)

\* state.vel += acc * dt, then the clamp
stepVel(dt) == clampVelocity(state.vel + MulDt(stepAcc, dt))

\* state.pos += state.vel * dt, with the velocity already clamped
stepPos(dt) == state.pos + MulDt(stepVel(dt), dt)

\* stepTime that never advances the clock of the run
stepTimeFrozen(dt) == state.time

\* state.time += dt
stepTime(dt) == state.time + dt

\* finishFlag where the finish block forgets state.finished = true
finishFlagNeverSet(fin) == state.finished

\* state.finished after the finish block
finishFlag(fin) == IF fin THEN TRUE ELSE state.finished

\* the state record at the end of updatePhysics(dt), past the early return
integrated(dt) ==
  LET terrain    == getCurrentTerrain
      slopeAngle == getCurrentSlope(terrain)
      mu         == terrain.baseMu
      vel1       == stepVel(dt)
      maxSpeed1  == trackMaxSpeed(vel1)
      time1      == stepTime(dt)
      fin        == reachedFinish(stepPos(dt))
      pos2       == IF fin THEN state.trackLength ELSE stepPos(dt)
      vel2       == IF fin THEN 0 ELSE vel1
      sample     == [t |-> time1, pos |-> pos2, vel |-> vel2, mu |-> mu, slope |-> slopeAngle]
      history1   == IF shouldRecord(state.history, time1) THEN Append(state.history, sample) ELSE state.history
  IN [state EXCEPT !.acc = stepAcc, !.vel = vel2, !.maxSpeed = maxSpeed1, !.pos = pos2, !.time = time1,
                   !.finished = finishFlag(fin), !.history = history1,
                   !.cameraOffset = cameraFollow(state.cameraOffset, pos2)]

\* physicsGated where the early return tests state.finished only
physicsGatedByFinishedOnly == state.finished

\* if (state.paused || state.finished) return;
physicsGated == state.paused \/ state.finished

\* resultsCalls counts the calls of showResults since the last
\* resetSimulation: one call inside the finish block
updatePhysics(dt) ==
  IF physicsGated
  THEN UNCHANGED <<state, resultsCalls>>
  ELSE /\ state' = integrated(dt)
       /\ resultsCalls' = IF reachedFinish(stepPos(dt)) THEN resultsCalls + 1 ELSE resultsCalls

(***************************************************************************)
(* Reset, events, game loop                                                *)
(***************************************************************************)
\* resetSimulation that forgets state.finished = false
resetSimulationKeepsFinished(s) ==
  [s EXCEPT !.pos = 0, !.vel = 0, !.acc = 0, !.time = 0, !.paused = FALSE,
            !.history = <<>>, !.maxSpeed = 0, !.cameraOffset = 0]

\* resetSimulation that flips state.paused instead of clearing it
resetSimulationTogglesPaused(s) ==
  [s EXCEPT !.pos = 0, !.vel = 0, !.acc = 0, !.time = 0, !.paused = ~s.paused, !.finished = FALSE,
            !.history = <<>>, !.maxSpeed = 0, !.cameraOffset = 0]

resetSimulation(s) ==
  [s EXCEPT !.pos = 0, !.vel = 0, !.acc = 0, !.time = 0, !.paused = FALSE, !.finished = FALSE,
            !.history = <<>>, !.maxSpeed = 0, !.cameraOffset = 0]

keysReleased == [up |-> FALSE, down |-> FALSE]

\* observer: which of page load, gameLoop and resetSimulation ran last, and
\* the flags it found
Note(ev) == last' = [event |-> ev, finished |-> state.finished, paused |-> state.paused]

InitState == [pos |-> 0, vel |-> 0, acc |-> 0, time |-> 0, trackLength |-> DefaultTotalLength,
              paused |-> FALSE, finished |-> FALSE, history |-> <<>>, maxSpeed |-> 0, cameraOffset |-> 0]

\* the form as DOMContentLoaded leaves it: 250 in each surface length
LoadForm == [equalToggle |-> FALSE, totalTrackLength |-> AbsentField,
             iceLengthInput |-> Num(DefaultSegmentLength), sandLengthInput |-> Num(DefaultSegmentLength),
             woodLengthInput |-> Num(DefaultSegmentLength)]

Init ==
  /\ variant \in {"main", "menu"}
  /\ terrains = IF variant = "main" THEN MainTerrains ELSE rebuiltTerrains(LoadForm)
  /\ state = [InitState EXCEPT !.trackLength = IF variant = "main" THEN DefaultTotalLength ELSE rebuiltTrackLength(LoadForm)]
  /\ keys = keysReleased
  /\ GRAVITY = DefaultGravity
  /\ ENGINE_ACC = DefaultEngineAcc
  /\ MAX_SPEED = DefaultMaxSpeed
  /\ CAR_MASS = DefaultCarMass
  /\ lastTime = 0
  /\ startListeners = IF variant = "main" THEN 0 ELSE 1
  /\ resultsCalls = 0
  /\ last = [event |-> "load", finished |-> FALSE, paused |-> FALSE]

config == <<variant, GRAVITY, ENGINE_ACC, MAX_SPEED, CAR_MASS, terrains>>

\* gameLoop that steps whenever the simulation is not paused, finished or not
gameLoopIgnoresFinished(timestamp) ==
  LET dt == Min(timestamp - lastTime, DtCapMs)
  IN /\ timestamp <= MaxTimestamp
     /\ lastTime' = timestamp
     /\ IF state.paused
        THEN UNCHANGED <<state, resultsCalls>>
        ELSE /\ state' = integrated(dt)
             /\ resultsCalls' = IF reachedFinish(stepPos(dt)) THEN resultsCalls + 1 ELSE resultsCalls
     /\ startListeners' = IF variant = "main" THEN startListeners + 1 ELSE startListeners
     /\ Note("gameLoop")
     /\ UNCHANGED <<keys, config>>

\* gameLoop that moves lastTime only on the frames that integrate
gameLoopKeepsLastTimeWhenGated(timestamp) ==
  LET dt == Min(timestamp - lastTime, DtCapMs)
  IN /\ timestamp <= MaxTimestamp
     /\ lastTime' = IF physicsGated THEN lastTime ELSE timestamp
     /\ IF ~state.finished THEN updatePhysics(dt) ELSE UNCHANGED <<state, resultsCalls>>
     /\ startListeners' = IF variant = "main" THEN startListeners + 1 ELSE startListeners
     /\ Note("gameLoop")
     /\ UNCHANGED <<keys, config>>

\* gameLoop that integrates over the whole gap between two frames
gameLoopUnclamped(timestamp) ==
  LET dt == timestamp - lastTime
  IN /\ timestamp <= MaxTimestamp
     /\ lastTime' = timestamp
     /\ IF ~state.finished THEN updatePhysics(dt) ELSE UNCHANGED <<state, resultsCalls>>
     /\ startListeners' = IF variant = "main" THEN startListeners + 1 ELSE startListeners
     /\ Note("gameLoop")
     /\ UNCHANGED <<keys, config>>

gameLoop(timestamp) ==
  LET dt == Min(timestamp - lastTime, DtCapMs)
  IN /\ timestamp <= MaxTimestamp
     /\ lastTime' = timestamp
     /\ IF ~state.finished THEN updatePhysics(dt) ELSE UNCHANGED <<state, resultsCalls>>
     /\ startListeners' = IF variant = "main" THEN startListeners + 1 ELSE startListeners
     /\ Note("gameLoop")
     /\ UNCHANGED <<keys, config>>

Frame == \E d \in FrameDeltas : gameLoop(lastTime + d)

accelerateBtnClick ==
  /\ keys' = [keys EXCEPT !.up = ~keys.up]
  /\ UNCHANGED last
  /\ UNCHANGED <<state, config, lastTime, startListeners, resultsCalls>>

brakeBtnClick ==
  /\ keys' = [keys EXCEPT !.down = ~keys.down]
  /\ UNCHANGED last
  /\ UNCHANGED <<state, config, lastTime, startListeners, resultsCalls>>

pauseBtnClick ==
  /\ state' = [state EXCEPT !.paused = ~state.paused]
  /\ UNCHANGED last
  /\ UNCHANGED <<keys, config, lastTime, startListeners, resultsCalls>>

resetBtnClick ==
  /\ state' = resetSimulation(state)
  /\ keys' = keysReleased
  /\ resultsCalls' = 0
  /\ Note("reset")
  /\ UNCHANGED <<config, lastTime, startListeners>>

restartBtnClick ==
  /\ state' = resetSimulation(state)
  /\ keys' = keysReleased
  /\ resultsCalls' = 0
  /\ Note("reset")
  /\ UNCHANGED <<config, lastTime, startListeners>>

backToMenuBtnClick ==
  /\ variant = "menu"
  /\ state' = resetSimulation(state)
  /\ keys' = keysReleased
  /\ resultsCalls' = 0
  /\ Note("reset")
  /\ UNCHANGED <<config, lastTime, startListeners>>

\* window keydown: arrows hold a key, space clicks pauseBtn, r / R resets
keydown(key) ==
  /\ state' = IF key = " " THEN [state EXCEPT !.paused = ~state.paused]
              ELSE IF key = "r" THEN resetSimulation(state)
              ELSE state
  /\ keys' = IF key = "ArrowUp" THEN [keys EXCEPT !.up = TRUE]
             ELSE IF key = "ArrowDown" THEN [keys EXCEPT !.down = TRUE]
             ELSE IF key = "r" THEN keysReleased
             ELSE keys
  /\ resultsCalls' = IF key = "r" THEN 0 ELSE resultsCalls
  /\ IF key = "r" THEN Note("reset") ELSE UNCHANGED last
  /\ UNCHANGED <<config, lastTime, startListeners>>

keyup(key) ==
  /\ keys' = IF key = "ArrowUp" THEN [keys EXCEPT !.up = FALSE]
             ELSE IF key = "ArrowDown" THEN [keys EXCEPT !.down = FALSE]
             ELSE keys
  /\ UNCHANGED last
  /\ UNCHANGED <<state, config, lastTime, startListeners, resultsCalls>>

KeyDown == \E key \in {"ArrowUp", "ArrowDown", " ", "r"} : keydown(key)

KeyUp == \E key \in {"ArrowUp", "ArrowDown"} : keyup(key)

(***************************************************************************)
(* Menu (configurable build) and startBtn                                  *)
(***************************************************************************)
\* the form values left by DOMContentLoaded
DefaultForm ==
  [gravityValue |-> Num(DefaultGravity), engineAccel |-> Num(DefaultEngineAcc), carMass |-> Num(DefaultCarMass),
   maxSpeed |-> Num(DefaultMaxSpeed), equalToggle |-> FALSE, totalTrackLength |-> AbsentField,
   iceLengthInput |-> Num(DefaultSegmentLength), sandLengthInput |-> Num(DefaultSegmentLength),
   woodLengthInput |-> Num(DefaultSegmentLength)]

\* a very strong car on a track set by its total length: gravity is not
\* a number (the minimum 0.1 is taken), 901 m in total (300 m a surface)
SprintForm ==
  [gravityValue |-> NaNField, engineAccel |-> Num(15000000), carMass |-> AbsentField,
   maxSpeed |-> Num(2500000), equalToggle |-> TRUE, totalTrackLength |-> Num(901000),
   iceLengthInput |-> Num(10000), sandLengthInput |-> NaNField, woodLengthInput |-> Num(70000)]

\* a heavy planet (gravity 400) and a slow, strong car (maxSpeed below the
\* minimum of 10) on three surfaces of different lengths, the first below
\* the 50 m floor
ShortForm ==
  [gravityValue |-> Num(400000), engineAccel |-> Num(200000), carMass |-> Num(700),
   maxSpeed |-> Num(5000), equalToggle |-> FALSE, totalTrackLength |-> AbsentField,
   iceLengthInput |-> Num(10000), sandLengthInput |-> Num(50000), woodLengthInput |-> Num(70000)]

MenuForms == {DefaultForm, SprintForm, ShortForm}

\* values typed into totalTrackLength: below the minimum of 300 m, not a
\* number, 450 m
TotalLengthEdits == {Num(120000), NaNField, Num(450000)}

\* startBtn of the configurable build: updatePhysicsConstants,
\* updateTerrainStructure, resetSimulation
startBtnClickMenu(form) ==
  /\ variant = "menu"
  /\ GRAVITY' = getValidatedInput(form.gravityValue, 100, DefaultGravity)
  /\ ENGINE_ACC' = getValidatedInput(form.engineAccel, 1000, DefaultEngineAcc)
  /\ CAR_MASS' = getValidatedInput(form.carMass, 500, DefaultCarMass)
  /\ MAX_SPEED' = getValidatedInput(form.maxSpeed, 10000, DefaultMaxSpeed)
  /\ terrains' = rebuiltTerrains(form)
  /\ state' = resetSimulation([state EXCEPT !.trackLength = rebuiltTrackLength(form)])
  /\ keys' = keysReleased
  /\ resultsCalls' = 0
  /\ Note("reset")
  /\ UNCHANGED <<variant, lastTime, startListeners>>

RECURSIVE resetTimes(_, _)
resetTimes(n, s) == IF n = 0 THEN s ELSE resetTimes(n - 1, resetSimulation(s))

\* startBtn of main.js: every frame so far has added one more listener,
\* and each listener calls resetSimulation
startBtnClickMain ==
  /\ variant = "main"
  /\ state' = resetTimes(startListeners, state)
  /\ keys' = IF startListeners > 0 THEN keysReleased ELSE keys
  /\ resultsCalls' = IF startListeners > 0 THEN 0 ELSE resultsCalls
  /\ IF startListeners > 0 THEN Note("startBtn") ELSE UNCHANGED last
  /\ UNCHANGED <<config, lastTime, startListeners>>

StartBtnClick == startBtnClickMain \/ \E form \in MenuForms : startBtnClickMenu(form)

\* change of totalTrackLength: rebuilds the terrain when the toggle is on
totalTrackLengthChange(equalToggle, field) ==
  /\ variant = "menu"
  /\ IF equalToggle
     THEN LET form == [equalToggle |-> TRUE, totalTrackLength |-> field]
          IN /\ terrains' = rebuiltTerrains(form)
             /\ state' = [state EXCEPT !.trackLength = rebuiltTrackLength(form)]
     ELSE UNCHANGED <<terrains, state>>
  /\ UNCHANGED last
  /\ UNCHANGED <<variant, keys, GRAVITY, ENGINE_ACC, MAX_SPEED, CAR_MASS, lastTime, startListeners, resultsCalls>>

TotalTrackLengthChange == \E t \in BOOLEAN, f \in TotalLengthEdits : totalTrackLengthChange(t, f)

Next ==
  \/ Frame
  \/ accelerateBtnClick
  \/ brakeBtnClick
  \/ pauseBtnClick
  \/ resetBtnClick
  \/ restartBtnClick
  \/ backToMenuBtnClick
  \/ KeyDown
  \/ KeyUp
  \/ StartBtnClick
  \/ TotalTrackLengthChange

Spec == Init /\ [][Next]_vars

(***************************************************************************)
(* Steady runs: a run followed from resetSimulation to the finish line,    *)
(* with the accelerator held and frames at a constant rate                 *)
(***************************************************************************)
\* a run is followed for at most this many ms of simulated time
MaxRunMs == 30000

\* one flat surface of friction coefficient 0.1, 250 m long
ScenarioTerrains ==
  <<[name |-> "ICE", baseMu |-> 100, length |-> 250000, start |-> 0, end |-> 250000,
     slopes |-> <<Slope(0, 250000, 0)>>]>>

\* the terrain of a build before the menu is used
DefaultTerrains == IF variant = "main" THEN MainTerrains ELSE rebuiltTerrains(LoadForm)

\* the gap between two frame timestamps, in ms: 10 ms on the flat surface
\* of friction 0.1, 100 ms on the terrains of the program
RunGapMs == IF terrains = ScenarioTerrains THEN 10 ELSE 100

InitRun ==
  /\ variant \in {"main", "menu"}
  /\ terrains \in {DefaultTerrains, ScenarioTerrains}
  /\ state = [InitState EXCEPT !.trackLength = terrains[Len(terrains)].end]
  /\ keys = [up |-> TRUE, down |-> FALSE]
  /\ GRAVITY = DefaultGravity
  /\ ENGINE_ACC = DefaultEngineAcc
  /\ MAX_SPEED = DefaultMaxSpeed
  /\ CAR_MASS = DefaultCarMass
  /\ lastTime = 0
  /\ startListeners = IF variant = "main" THEN 0 ELSE 1
  /\ resultsCalls = 0
  /\ last = [event |-> "reset", finished |-> FALSE, paused |-> FALSE]

\* gameLoop on a frame that comes RunGapMs after the previous one, while
\* the run is not finished
steadyFrame ==
  LET timestamp == lastTime + RunGapMs
      dt        == Min(timestamp - lastTime, DtCapMs)
  IN /\ state.time < MaxRunMs
     /\ ~state.finished
     /\ lastTime' = timestamp
     /\ updatePhysics(dt)
     /\ startListeners' = IF variant = "main" THEN startListeners + 1 ELSE startListeners
     /\ Note("gameLoop")
     /\ UNCHANGED <<keys, config>>

\* the total track length is edited, with the toggle on, during a run on
\* the terrain the page loaded with
midRunLengthEdit ==
  /\ terrains = DefaultTerrains
  /\ \E field \in TotalLengthEdits : totalTrackLengthChange(TRUE, field)

NextRun ==
  \/ steadyFrame
  \/ midRunLengthEdit

SpecRun == InitRun /\ [][NextRun]_vars

\* a steady run over the terrain the page loaded with, nothing else
\* happening
InitDrive == InitRun /\ terrains = DefaultTerrains

\* requestAnimationFrame schedules the next frame at the end of every frame
FairSpecDrive == InitDrive /\ [][steadyFrame]_vars /\ WF_vars(steadyFrame)

(***************************************************************************)
(* Properties                                                              *)
(***************************************************************************)
\* the fields a physics step may write
kinematic == <<state.pos, state.vel, state.acc, state.time, state.history, state.maxSpeed, state.cameraOffset, state.finished>>

\* a handler that calls resetSimulation: resetBtn, restartBtn,
\* backToMenuBtn, the r key, startBtn (in main.js once a frame has
\* registered a listener)
ResetHandlers ==
  \/ resetBtnClick
  \/ restartBtnClick
  \/ backToMenuBtnClick
  \/ keydown("r")
  \/ \E form \in MenuForms : startBtnClickMenu(form)
  \/ (startListeners > 0 /\ startBtnClickMain)

\* C1: after every physics step, whatever the keys (both held included),
\* the velocity lies between 0 and MAX_SPEED.
C1_VelocityBounds == 0 <= state.vel /\ state.vel <= MAX_SPEED

\* a frame has integrated with accelerate and brake both held and the
\* velocity was cut down to MAX_SPEED
C1_Witness ==
  /\ last.event = "gameLoop" /\ ~last.paused /\ ~last.finished
  /\ keys.up /\ keys.down
  /\ state.acc > 0
  /\ state.vel = MAX_SPEED

\* C2 (as claimed): a frame never decreases state.pos or state.time.
C2_MonotonicPosTime == [][Frame => (state'.pos >= state.pos /\ state'.time >= state.time)]_vars

\* C3 (as claimed): a finished run stands at the end of the track with
\* velocity 0.
C3_FinishedAtTrackEnd == state.finished => (state.pos = state.trackLength /\ state.vel = 0)

C5_ShowResultsOnce == resultsCalls <= 1 /\ (state.finished <=> resultsCalls = 1)

\* the finishing step has just run and called showResults
C5_Witness ==
  /\ last.event = "gameLoop" /\ ~last.finished
  /\ state.finished /\ resultsCalls = 1

\* C6 (as claimed): the position lies between 0 and the track length in
\* every reachable state.
C6_PositionInTrack == 0 <= state.pos /\ state.pos <= state.trackLength

\* C7: a frame changes nothing while the simulation is paused, and the
\* pause toggle (button or space key) changes state.paused only, so two
\* toggles with paused frames in between restore the kinematic state.
C7_PausedFramesChangeNothing ==
  [][/\ (state.paused /\ Frame) => UNCHANGED <<state, keys, resultsCalls>>
     /\ (pauseBtnClick \/ keydown(" ")) => (kinematic' = kinematic /\ keys' = keys /\ state'.paused = ~state.paused)]_vars

\* a frame ran while a moving car was paused and left it as it was
C7_Witness ==
  /\ last.event = "gameLoop" /\ last.paused /\ ~last.finished
  /\ state.paused /\ state.vel > 0 /\ state.time < lastTime

\* C8: resetSimulation, from any state, zeroes pos, vel, acc, time,
\* maxSpeed and cameraOffset, empties the history, clears paused and
\* finished and releases both keys, so the next step is not gated.
C8_ResetYieldsFreshRun ==
  [][ResetHandlers =>
       /\ state'.pos = 0 /\ state'.vel = 0 /\ state'.acc = 0 /\ state'.time = 0
       /\ ~state'.paused /\ ~state'.finished /\ state'.history = <<>>
       /\ state'.maxSpeed = 0 /\ state'.cameraOffset = 0
       /\ ~keys'.up /\ ~keys'.down
       /\ ~physicsGated']_vars

\* resetSimulation has run on a finished run
C8_Witness ==
  /\ last.event = "reset" /\ last.finished
  /\ state.pos = 0 /\ ~state.finished /\ state.history = <<>>

\* C9 (as claimed): once the run is finished, only a handler that calls
\* resetSimulation changes state or keys.
C9_FinishedIsFrozen == [][(state.finished /\ ~ResetHandlers) => UNCHANGED <<state, keys>>]_vars

\* the gaps between consecutive history samples exceed the interval
SampleGapsExceedInterval ==
  \A i \in 1..(Len(state.history) - 1) : state.history[i + 1].t - state.history[i].t > SampleIntervalMs

\* C10: a step appends a sample only to an empty history or more than
\* 0.2 s after the last sample; so consecutive samples are more than
\* 0.2 s apart (and strictly increasing in time); the history is emptied
\* only by resetSimulation.
C10_HistoryThrottled ==
  /\ []SampleGapsExceedInterval
  /\ [][state'.history # state.history =>
          \/ /\ Frame
             /\ Len(state'.history) = Len(state.history) + 1
             /\ SubSeq(state'.history, 1, Len(state.history)) = state.history
             /\ state'.history[Len(state'.history)].t = state'.time
             /\ (state.history = <<>> \/ state'.time - state.history[Len(state.history)].t > SampleIntervalMs)
          \/ (ResetHandlers /\ state'.history = <<>>)]_vars

\* a second sample of a moving car has been appended
C10_Witness ==
  /\ Len(state.history) >= 2
  /\ last.event = "gameLoop"
  /\ state.history[2].pos > state.history[1].pos

\* C11: the surfaces start at 0, each ends where the next starts, each is
\* non-empty, and the last ends at state.trackLength: together they cover
\* [0, trackLength) with no gap and no overlap (after every
\* updateTerrainStructure, and for the table of main.js with 750).
C11_SurfacesCoverTrack ==
  /\ terrains[1].start = 0
  /\ \A i \in 1..(Len(terrains) - 1) : terrains[i].end = terrains[i + 1].start
  /\ \A i \in 1..Len(terrains) : terrains[i].start < terrains[i].end /\ terrains[i].end - terrains[i].start = terrains[i].length
  /\ terrains[Len(terrains)].end = state.trackLength
  /\ (variant = "main" => state.trackLength = DefaultTotalLength)

\* updateTerrainStructure has built three surfaces of different lengths,
\* the first one raised to the 50 m floor
C11_Witness ==
  /\ variant = "menu" /\ last.event = "reset"
  /\ terrains[1].length = minSegmentLength
  /\ terrains[3].length > terrains[2].length
  /\ state.trackLength = terrains[1].length + terrains[2].length + terrains[3].length

\* positions at which the surface lookup is probed: the car's position,
\* both ends, the middle and the neighbours of the ends of every surface,
\* the end of the track and a point beyond it
ProbePositions ==
  {state.pos, 150000, state.trackLength, state.trackLength + 1, state.trackLength + minSegmentLength}
  \cup UNION {{terrains[i].start, terrains[i].start + 1, (terrains[i].start + terrains[i].end) \div 2,
               terrains[i].end - 1, terrains[i].end} : i \in 1..Len(terrains)}

\* C12: for a position in [0, trackLength) the lookup returns the one
\* surface with start <= position < end, for a position at or beyond
\* trackLength the last surface; on three surfaces of 100 m, 150 gives the
\* second surface and 300 the last.
C12_SurfaceLookup ==
  /\ \A p \in ProbePositions :
        IF 0 <= p /\ p < state.trackLength
        THEN /\ findTerrain(terrains, p).start <= p /\ p < findTerrain(terrains, p).end
             /\ Cardinality({i \in 1..Len(terrains) : terrains[i].start <= p /\ p < terrains[i].end}) = 1
        ELSE p >= state.trackLength => findTerrain(terrains, p) = terrains[Len(terrains)]
  /\ (state.trackLength = 300000 /\ \A i \in 1..3 : terrains[i].length = 100000)
        => (findTerrain(terrains, 150000) = terrains[2] /\ findTerrain(terrains, 300000) = terrains[3])

\* a step has moved the car onto the second of three 100 m surfaces
C12_Witness ==
  /\ last.event = "gameLoop" /\ ~last.finished /\ ~last.paused
  /\ state.trackLength = 300000 /\ terrains[2].length = 100000
  /\ state.pos >= terrains[2].start /\ state.pos < terrains[2].end
  /\ getCurrentTerrain = terrains[2]

\* the slope segments of a surface start at its start, follow one another,
\* are non-empty and end at its end
SlopesCoverSurface(t) ==
  /\ t.slopes[1].start = t.start
  /\ \A j \in 1..(Len(t.slopes) - 1) : t.slopes[j].end = t.slopes[j + 1].start
  /\ \A j \in 1..Len(t.slopes) : t.slopes[j].start < t.slopes[j].end
  /\ t.slopes[Len(t.slopes)].end = t.end

\* C13 (as claimed): the slope segments of every surface cover it, and
\* in every reachable state with the car on the track, the finished state
\* with pos = trackLength included, the current surface has a slope
\* segment with start <= state.pos < end, so the lookup never falls back
\* to angle 0.
C13_SlopeAlwaysFound ==
  /\ \A i \in 1..Len(terrains) : SlopesCoverSurface(terrains[i])
  /\ (0 <= state.pos /\ state.pos <= state.trackLength) => \E j \in 1..Len(getCurrentTerrain.slopes) :
       getCurrentTerrain.slopes[j].start <= state.pos /\ state.pos < getCurrentTerrain.slopes[j].end

\* the slope segments of all surfaces, in track order
AllSlopes == terrains[1].slopes \o terrains[2].slopes \o terrains[3].slopes

RECURSIVE RiseUpTo(_, _)
\* the sum of length * tan(angle) over the slope segments that end at or
\* before b
RiseUpTo(slopes, b) ==
  IF slopes = <<>> THEN 0
  ELSE (IF Head(slopes).end <= b THEN (Head(slopes).end - Head(slopes).start) * tanDeg(Head(slopes).angle) ELSE 0)
       + RiseUpTo(Tail(slopes), b)

\* positions probed inside one slope segment: both ends, the middle and
\* the last point before the end
SlopeProbes(slope) == {slope.start, (slope.start + slope.end) \div 2, slope.end - 1, slope.end}

\* C14: the height is 0 at and before position 0; between two positions
\* of one slope segment (its ends included) it grows by the distance times
\* tan(angle); at the end of every slope segment, so at every surface
\* boundary too, it is the sum of the rises of the segments up to there;
\* from the end of the track on it is the sum over all segments.
C14_HeightPiecewiseLinear ==
  variant = "menu" =>
    /\ getTerrainHeightAt(0) = 0 /\ getTerrainHeightAt(-1) = 0
    /\ \A k \in 1..Len(AllSlopes) :
         /\ \A p1, p2 \in SlopeProbes(AllSlopes[k]) :
              p1 < p2 => getTerrainHeightAt(p2) - getTerrainHeightAt(p1) = (p2 - p1) * tanDeg(AllSlopes[k].angle)
         /\ getTerrainHeightAt(AllSlopes[k].end) = RiseUpTo(AllSlopes, AllSlopes[k].end)
    /\ \A p \in {state.trackLength, state.trackLength + 1, state.trackLength + minSegmentLength} :
         getTerrainHeightAt(p) = RiseUpTo(AllSlopes, state.trackLength)

\* a step has left the car on a sloped segment of the second surface, at a
\* height other than 0
C14_Witness ==
  /\ variant = "menu" /\ last.event = "gameLoop" /\ ~last.finished /\ ~last.paused
  /\ state.pos > terrains[2].start /\ state.pos < terrains[2].end
  /\ getCurrentSlope(getCurrentTerrain) # 0
  /\ getTerrainHeightAt(state.pos) # 0
  /\ getTerrainHeightAt(state.pos) # getTerrainHeightAt(terrains[2].start)

\* C15 (as claimed): the surfaces and state.trackLength change only when
\* startBtn (re)starts a run.
C15_TerrainImmutableDuringRun ==
  [][(terrains' # terrains \/ state'.trackLength # state.trackLength)
       => \E form \in MenuForms : startBtnClickMenu(form)]_vars

\* C16 (as claimed): in total-length mode the track length is the total
\* length asked for (at least 300 after validation), in per-surface mode
\* the sum of the three validated lengths.
C16_TotalLengthReproduced ==
  [][/\ \A form \in MenuForms :
          startBtnClickMenu(form) =>
            state'.trackLength =
              IF form.equalToggle
              THEN getValidatedInput(form.totalTrackLength, MinTotalLength, DefaultTotalLength)
              ELSE getValidatedInput(form.iceLengthInput, minSegmentLength, DefaultSegmentLength)
                   + getValidatedInput(form.sandLengthInput, minSegmentLength, DefaultSegmentLength)
                   + getValidatedInput(form.woodLengthInput, minSegmentLength, DefaultSegmentLength)
     /\ \A field \in TotalLengthEdits :
          totalTrackLengthChange(TRUE, field) =>
            state'.trackLength = getValidatedInput(field, MinTotalLength, DefaultTotalLength)]_vars

\* C17 (as claimed): with state.time = 0, showResults computes the average
\* speed 0.
C17_AverageSpeedGuarded == state.time = 0 => avgSpeed = Num(0)

\* C18: whatever the gap between two frame timestamps, a frame advances
\* state.time by at most 0.1 s and state.pos by at most 0.1 * MAX_SPEED.
C18_StepBounded ==
  [][Frame => /\ state'.time - state.time <= DtCapMs
              /\ state'.pos - state.pos <= MulDt(MAX_SPEED, DtCapMs)]_vars

\* the first frame came 250 ms after lastTime = 0 and the moving car was
\* integrated over 100 ms
C18_Witness ==
  /\ last.event = "gameLoop" /\ ~last.finished /\ ~last.paused
  /\ lastTime = 250 /\ state.time = DtCapMs
  /\ state.vel > 0 /\ state.pos > 0

\* C19: state.vel <= state.maxSpeed <= MAX_SPEED; a step that does not
\* finish leaves maxSpeed at the larger of its old value and the clamped
\* velocity, the finishing step does not lower it although it zeroes vel;
\* no other event but resetSimulation (which zeroes it) changes it.
C19_MaxSpeedIsRunMaximum ==
  /\ [](state.vel <= state.maxSpeed /\ state.maxSpeed <= MAX_SPEED)
  /\ [][/\ (Frame /\ ~state'.finished) => state'.maxSpeed = Max(state.maxSpeed, state'.vel)
        /\ (Frame /\ state'.finished) => state'.maxSpeed >= state.maxSpeed
        /\ ResetHandlers => state'.maxSpeed = 0
        /\ (~Frame /\ ~ResetHandlers) => state'.maxSpeed = state.maxSpeed]_vars

\* the finishing step has zeroed the velocity and kept the maximum speed
C19_Witness ==
  /\ last.event = "gameLoop" /\ ~last.finished
  /\ state.finished /\ state.vel = 0 /\ state.maxSpeed > 0

\* a frame integrates with the brake alone held, on a slope segment of
\* angle 0
BrakingStepOnFlat ==
  /\ Frame /\ ~physicsGated
  /\ keys.down /\ ~keys.up
  /\ getCurrentSlope(getCurrentTerrain) = 0

\* C20: a step on flat terrain with only the brake held lowers a positive
\* velocity strictly, leaves a velocity of 0 at 0, and never yields a
\* negative velocity.
C20_BrakingHaltsAtZero ==
  [][BrakingStepOnFlat => /\ state'.vel >= 0
                          /\ (state.vel > 0 => state'.vel < state.vel)
                          /\ (state.vel = 0 => state'.vel = 0)]_vars

\* the car reached MAX_SPEED in this run, and a step with only the brake
\* held, on flat terrain, has left it at rest
C20_Witness ==
  /\ last.event = "gameLoop" /\ ~last.finished /\ ~last.paused
  /\ keys.down /\ ~keys.up
  /\ state.maxSpeed = MAX_SPEED /\ state.vel = 0 /\ state.acc < 0
  /\ state.pos > 0 /\ ~state.finished
  /\ getCurrentSlope(getCurrentTerrain) = 0
  /\ Len(state.history) >= 2 /\ state.history[1].vel = MAX_SPEED

\* C21: on the flat surface of friction 0.1, with gravity 9.8 and engine
\* acceleration 6, from rest with only the accelerator held, the first
\* step of 0.01 s applies no friction (vel = 0.06), and after 100 such
\* steps the velocity is within 1% of 5.02.
C21_FlatAccelerationMatchesEuler ==
  (terrains = ScenarioTerrains /\ keys.up /\ ~keys.down) =>
    /\ state.time = 10 => state.vel = 60
    /\ state.time = 1000 => Abs(state.vel - 5020) * 100 <= 5020

\* 100 steps of 0.01 s have run on the flat surface
C21_Witness ==
  /\ terrains = ScenarioTerrains /\ last.event = "gameLoop"
  /\ keys.up /\ ~keys.down
  /\ state.time = 1000 /\ state.vel > 0 /\ state.pos < state.trackLength
  /\ getCurrentSlope(getCurrentTerrain) = 0

\* C22 (as claimed): after 100 steps of 0.01 s the history holds about 10
\* samples.
C22_AboutTenSamples ==
  (RunGapMs = 10 /\ state.time = 1000) => Len(state.history) \in 8..12

\* C22 (amended): the throttle is the fixed interval of 0.2 s: n samples
\* take more than (n - 1) * 0.2 s of run time, and 100 steps of 0.01 s
\* leave 5 samples.
C22_SamplesBoundedByTime ==
  /\ state.history # <<>> => (Len(state.history) - 1) * SampleIntervalMs < state.time
  /\ (RunGapMs = 10 /\ state.time = 1000) => Len(state.history) = 5

\* 100 steps of 0.01 s have left 5 samples, the second one 0.21 s after
\* the first
C22_Witness ==
  /\ RunGapMs = 10 /\ state.time = 1000 /\ last.event = "gameLoop"
  /\ Len(state.history) = 5
  /\ state.history[1].t = 10 /\ state.history[2].t = 220

\* C23 (as claimed): a step sets state.acc to engine + brake - mu *
\* GRAVITY * cos(angle) * sign(vel) (while |vel| > 0.01) - GRAVITY *
\* sin(angle), taken at the position the step starts from, then adds dt to
\* the time and, unless it finishes, sets vel to the clamped vel + acc * dt
\* and pos to pos + vel' * dt.
C23_StepFormula ==
  [][steadyFrame =>
       LET terrain == getCurrentTerrain
           angle   == getCurrentSlope(terrain)
           dt      == Min(RunGapMs, DtCapMs)
           acc     == (IF keys.up THEN ENGINE_ACC ELSE 0) + (IF keys.down THEN BRAKE_ACC ELSE 0)
                      - (IF Abs(state.vel) > FrictionEpsilon
                         THEN MulMilli(MulMilli(terrain.baseMu, GRAVITY), cosDeg(angle)) * Sign(state.vel)
                         ELSE 0)
                      - MulMilli(GRAVITY, sinDeg(angle))
           vel1    == Max(0, Min(MAX_SPEED, state.vel + MulDt(acc, dt)))
       IN /\ state'.acc = acc
          /\ state'.time = state.time + dt
          /\ ~state'.finished => (state'.vel = vel1 /\ state'.pos = state.pos + MulDt(vel1, dt))]_vars

\* C24: with the default constants and terrain, the accelerator held, no
\* pause and frames at a constant rate, the run eventually finishes.
C24_RunEventuallyFinishes ==
  (terrains = DefaultTerrains /\ keys.up /\ ~keys.down /\ ~state.paused) => <>state.finished

\* a run over the default terrain, SAND included, has reached the finish
C24_Witness ==
  /\ terrains = DefaultTerrains /\ state.trackLength = DefaultTotalLength
  /\ keys.up /\ ~keys.down
  /\ state.finished /\ state.pos = state.trackLength
  /\ \E i \in 1..Len(state.history) : state.history[i].mu = 700 /\ state.history[i].slope > 0

\* C25 (as claimed): in the finishing step showResults finds only samples
\* with pos < trackLength in the history (the history the step started
\* with), and the step then appends at most one sample, with pos =
\* trackLength and vel = 0, and only if the throttle allows it.
C25_ResultsBeforeFinishSample ==
  [][(steadyFrame /\ state'.finished) =>
       /\ \A i \in 1..Len(state.history) : state.history[i].pos < state.trackLength
       /\ \/ state'.history = state.history
          \/ /\ shouldRecord(state.history, state'.time)
             /\ Len(state'.history) = Len(state.history) + 1
             /\ SubSeq(state'.history, 1, Len(state.history)) = state.history
             /\ state'.history[Len(state'.history)].pos = state.trackLength
             /\ state'.history[Len(state'.history)].vel = 0]_vars

\* C26: every frame moves lastTime forward, paused or not; a frame adds
\* to state.time the clamped gap since the previous frame when it
\* integrates and nothing when the simulation is paused or finished; only
\* resetSimulation (to 0) changes state.time otherwise.
C26_PausedTimeNotCounted ==
  [][/\ Frame => /\ lastTime' > lastTime
                 /\ state'.time = state.time + (IF physicsGated THEN 0 ELSE Min(lastTime' - lastTime, DtCapMs))
     /\ ResetHandlers => (state'.time = 0 /\ lastTime' = lastTime)
     /\ (~Frame /\ ~ResetHandlers) => (state'.time = state.time /\ lastTime' = lastTime)]_vars

\* a frame found a moving car paused: lastTime has moved on, state.time
\* has not
C26_Witness ==
  /\ last.event = "gameLoop" /\ last.paused /\ ~last.finished
  /\ state.paused /\ state.vel > 0
  /\ state.time = 90 /\ lastTime = 270

\* C27: once showResults has been called the elapsed time is positive, so
\* the average speed it computes is a finite number, in main.js too.
C27_ResultsTimePositive ==
  resultsCalls > 0 => (state.time > 0 /\ avgSpeed.kind = "num")

\* a run of main.js has finished and showResults has divided by a
\* positive time
C27_Witness ==
  /\ variant = "main" /\ terrains = MainTerrains
  /\ state.finished /\ resultsCalls = 1
  /\ avgSpeed.kind = "num" /\ avgSpeed.value > 0

\* C28: resetSimulation applied any number n >= 1 of times gives what one
\* application gives, a state that depends on the prior state only through
\* trackLength, which it keeps; a click on start in main.js, where every
\* frame has added a listener, acts as one resetSimulation and leaves the
\* terrains and the physics constants alone.
C28_ResetIdempotent ==
  /\ [](/\ resetSimulation(state) = [InitState EXCEPT !.trackLength = state.trackLength]
        /\ \A n \in 1..(MaxFrames + 1) : resetTimes(n, state) = resetSimulation(state))
  /\ [][(startBtnClickMain /\ startListeners > 0) =>
          (state' = resetSimulation(state) /\ keys' = keysReleased /\ config' = config)]_vars

\* start was clicked in main.js after several frames, on a paused run
C28_Witness ==
  /\ variant = "main" /\ last.event = "startBtn" /\ last.paused
  /\ startListeners >= 2
  /\ state = [InitState EXCEPT !.trackLength = state.trackLength]

====
